---- MODULE Spec2Model ----
(***************************************************************************)
(* A model of duplicates.go: the walk (visitFile), the worker pool of      *)
(* computeHashes (dispatcher goroutine, workers, result collector), the    *)
(* shared index duplicates.m, and main's report after computeHashes.       *)
(*                                                                         *)
(* A path is the position of its entry in the walk (filepath.Walk visits   *)
(* every path once).  A *WalkedFile is the position of the descriptor in   *)
(* walkFiles.  A file's content is a sequence of bytes.                    *)
(***************************************************************************)
EXTENDS Integers, Sequences, FiniteSets, TLC

\* ---------------------------------------------------------------- bounds
MaxEntries == 3        \* entries the walk visits at most
MaxCPU == 2            \* runtime.NumCPU() is at most this
MaxHarness == 3        \* length of walkFiles in the computeHashes harness

\* ------------------------------------------------------ program constants
MinSize == 1           \* flag "size", default value

\* The contents a file of the tree may have (sizes 0, 1 and 2).
Contents == {<< >>, <<1>>, <<1, 1>>, <<1, 2>>}

\* What os.Open and io.Copy do with a dispatched file: both succeed, or one of
\* them returns an error (scanAndHashFile logs it and returns, either way).
IO == {"ok", "fail"}

VARIABLES
    mainpc,      \* main: "walk", "compute", "returned", "report", "exit", "exited", "panic"
    tree,        \* the entries filepath.Walk has handed to visitFile, in order
    visitCount,  \* visitCount
    walkFiles,   \* walkFiles: descriptors [kind, path]
    ioPlan,      \* per descriptor, what opening and reading it will give
    numWorkers,  \* numWorkers of computeHashes
    jobs,        \* jobs channel buffer: positions in walkFiles
    jobsClosed,  \* close(jobs) has run
    results,     \* results channel buffer: [err, kind]
    cancelled,   \* ctx.Done() is closed
    di,          \* dispatcher: descriptors sent so far
    dpc,         \* dispatcher: "run" or "done"
    ci,          \* collector: loop counter i
    firstErr,    \* collector: firstErr ("nil" when unset)
    wpc,         \* per worker: position in worker()
    item,        \* per worker: the descriptor it holds (0: none)
    mu,          \* duplicates.RWMutex: 0 free, else the worker holding it
    m,           \* duplicates.m: fingerprint -> sequence of paths
    fileCount,   \* fileCount
    dupCount,    \* dupCount
    deleted,     \* paths removed by deleteFile
    delFlag,     \* the delete flag as main read it ("unread" before the report)
    deq,         \* history: per descriptor, how many times it was dequeued
    opened,      \* history: paths a worker called os.Open on
    exitsRead    \* history: worker-exit messages the collector consumed

vars == <<mainpc, tree, visitCount, walkFiles, ioPlan, numWorkers, jobs,
          jobsClosed, results, cancelled, di, dpc, ci, firstErr, wpc, item,
          mu, m, fileCount, dupCount, deleted, delFlag, deq, opened, exitsRead>>

walkVars == <<tree, visitCount, walkFiles>>
poolVars == <<ioPlan, numWorkers, jobs, jobsClosed, results, cancelled, di, dpc,
              ci, firstErr, wpc, item, mu, m, fileCount, deq, opened, exitsRead>>
mainVars == <<dupCount, deleted, delFlag>>

\* ------------------------------------------------------------- the tree
\* An entry as filepath.Walk hands it to visitFile: f == nil (nilInfo) when
\* lstat failed, err set for that or for a directory that cannot be read.
\* match is filenameMatch == "*" || filenameRegex.MatchString(f.Name()); the
\* file whose name fails the pattern is one that is large enough.
NilEntry == [nilInfo |-> TRUE, isDir |-> FALSE, err |-> TRUE,
             content |-> << >>, match |-> FALSE]
DirEntries == {[nilInfo |-> FALSE, isDir |-> TRUE, err |-> e,
                content |-> << >>, match |-> TRUE] : e \in BOOLEAN}
FileEntries == {[nilInfo |-> FALSE, isDir |-> FALSE, err |-> FALSE,
                 content |-> c, match |-> TRUE] : c \in Contents}
               \cup {[nilInfo |-> FALSE, isDir |-> FALSE, err |-> FALSE,
                      content |-> <<1, 1>>, match |-> FALSE]}
Entries == {NilEntry} \cup DirEntries \cup FileEntries

Size(e) == Len(e.content)

\* ------------------------------------------------------------ fingerprint
\* md5 of a byte sequence, as a number: an injective encoding of the content
\* (the digest is taken to be collision-free on the contents modelled).
RECURSIVE MD5(_)
MD5(c) == IF c = << >> THEN 1 ELSE 3 * MD5(SubSeq(c, 1, Len(c) - 1)) + c[Len(c)]

\* A digest taken before io.Copy has fed the file to it.
HashOfNothing(p) == MD5(<< >>)

\* fmt.Sprintf("%x", md5Hash.Sum(nil)) of the file at a path.
HashOf(p) == MD5(tree[p].content)

\* ------------------------------------------------------------------ Init
EmptyMap == [h \in {} |-> << >>]

Init ==
    /\ mainpc = "walk"
    /\ tree = << >>
    /\ visitCount = 0
    /\ walkFiles = << >>
    /\ ioPlan = << >>
    /\ numWorkers = 0
    /\ jobs = << >>
    /\ jobsClosed = FALSE
    /\ results = << >>
    /\ cancelled = FALSE
    /\ di = 0
    /\ dpc = "run"
    /\ ci = 0
    /\ firstErr = "nil"
    /\ wpc = << >>
    /\ item = << >>
    /\ mu = 0
    /\ m = EmptyMap
    /\ fileCount = 0
    /\ dupCount = 0
    /\ deleted = {}
    /\ delFlag = "unread"
    /\ deq = << >>
    /\ opened = {}
    /\ exitsRead = 0

\* ------------------------------------------------------------- the walk
\* visitFile without its test of the name.
SelectedAnyName(e) == ~e.isDir /\ Size(e) > MinSize

\* The condition of visitFile under which the entry is appended to walkFiles.
Selected(e) == ~e.isDir /\ Size(e) > MinSize /\ e.match

\* The early return of scanAndHashFile.
Rejected(e) == e.isDir \/ Size(e) <= MinSize \/ ~e.match

\* filepath.Walk goes on after the root only when the root is a directory it
\* could read.
WalkGoesOn ==
    /\ mainpc = "walk"
    /\ Len(tree) < MaxEntries
    /\ tree # << >> => (tree[1].isDir /\ ~tree[1].err)

\* visitFile(path, f, err) with f != nil.  err is ignored.
VisitFile ==
    /\ WalkGoesOn
    /\ \E e \in Entries \ {NilEntry} :
          /\ tree' = Append(tree, e)
          /\ visitCount' = visitCount + 1
          /\ walkFiles' = IF Selected(e)
                          THEN Append(walkFiles, [kind |-> "ok", path |-> Len(tree) + 1])
                          ELSE walkFiles
    /\ UNCHANGED <<mainpc, poolVars, mainVars>>

\* visitFile(path, nil, err): lstat failed.  visitCount++ runs, then f.IsDir()
\* on the nil FileInfo panics and the process dies.
VisitFilePanic ==
    /\ WalkGoesOn
    /\ tree' = Append(tree, NilEntry)
    /\ visitCount' = visitCount + 1
    /\ mainpc' = "panic"
    /\ UNCHANGED <<walkFiles, poolVars, mainVars>>

\* ------------------------------------------------- computeHashes: set-up
Workers == 1..numWorkers

\* The goroutines run while the process does.
Alive == mainpc \in {"compute", "returned", "report", "exit"}

\* An unbuffered-like channel: a send proceeds only into an empty buffer.
RoomForOne(ch) == ch = << >>

\* make(chan _, visitCount): a send proceeds while the buffer has room.
Room(ch) == Len(ch) < visitCount

\* main: filepath.Walk has returned; computeHashes makes the channels, reads
\* singleThread and runtime.NumCPU() and starts the workers and the dispatcher.
\* plan is what the filesystem will answer for each descriptor when opened.
StartCompute ==
    /\ mainpc = "walk"
    /\ tree # << >>
    /\ \E st \in BOOLEAN, cpus \in 1..MaxCPU, plan \in [1..Len(walkFiles) -> IO] :
          /\ numWorkers' = IF st THEN 1 ELSE cpus
          /\ ioPlan' = plan
          /\ wpc' = [w \in 1..(IF st THEN 1 ELSE cpus) |-> "select"]
          /\ item' = [w \in 1..(IF st THEN 1 ELSE cpus) |-> 0]
    /\ deq' = [i \in 1..Len(walkFiles) |-> 0]
    /\ mainpc' = "compute"
    /\ UNCHANGED <<walkVars, jobs, jobsClosed, results, cancelled, di, dpc, ci,
                   firstErr, mu, m, fileCount, opened, exitsRead, mainVars>>

\* ---------------------------------------------------------- dispatcher
\* case jobs <- file
DispatchSend ==
    /\ Alive /\ dpc = "run"
    /\ di < Len(walkFiles)
    /\ Room(jobs)
    /\ jobs' = Append(jobs, di + 1)
    /\ di' = di + 1
    /\ UNCHANGED <<mainpc, walkVars, ioPlan, numWorkers, jobsClosed, results,
                   cancelled, dpc, ci, firstErr, wpc, item, mu, m, fileCount,
                   deq, opened, exitsRead, mainVars>>

\* the deferred close(jobs), when the range loop is over or when the select
\* took case <-ctx.Done() and returned
DispatchClose ==
    /\ Alive /\ dpc = "run"
    /\ (di = Len(walkFiles) \/ cancelled)
    /\ jobsClosed' = TRUE
    /\ dpc' = "done"
    /\ UNCHANGED <<mainpc, walkVars, ioPlan, numWorkers, jobs, results,
                   cancelled, di, ci, firstErr, wpc, item, mu, m, fileCount,
                   deq, opened, exitsRead, mainVars>>

\* ------------------------------------------------------------- workers
\* What a receive leaves in a channel's buffer.
ReceiveKeeps(ch) == ch

Received(ch) == Tail(ch)

\* select, case file, ok := <-jobs with a buffered item
WorkerTake(w) ==
    /\ Alive /\ wpc[w] = "select"
    /\ jobs # << >>
    /\ item' = [item EXCEPT ![w] = Head(jobs)]
    /\ jobs' = Received(jobs)
    /\ deq' = [deq EXCEPT ![Head(jobs)] = @ + 1]
    /\ wpc' = [wpc EXCEPT ![w] = "process"]
    /\ UNCHANGED <<mainpc, walkVars, ioPlan, numWorkers, jobsClosed, results,
                   cancelled, di, dpc, ci, firstErr, mu, m, fileCount, opened,
                   exitsRead, mainVars>>

\* select, case <-jobs with ok == false: the channel is closed and drained
WorkerClosed(w) ==
    /\ Alive /\ wpc[w] = "select"
    /\ jobs = << >> /\ jobsClosed
    /\ wpc' = [wpc EXCEPT ![w] = "sendClosed"]
    /\ UNCHANGED <<mainpc, walkVars, ioPlan, numWorkers, jobs, jobsClosed,
                   results, cancelled, di, dpc, ci, firstErr, item, mu, m,
                   fileCount, deq, opened, exitsRead, mainVars>>

\* select, case <-ctx.Done(): taken whenever ready, also with jobs ready
WorkerDone(w) ==
    /\ Alive /\ wpc[w] = "select"
    /\ cancelled
    /\ wpc' = [wpc EXCEPT ![w] = "sendCtxErr"]
    /\ UNCHANGED <<mainpc, walkVars, ioPlan, numWorkers, jobs, jobsClosed,
                   results, cancelled, di, dpc, ci, firstErr, item, mu, m,
                   fileCount, deq, opened, exitsRead, mainVars>>

\* results <- nil / results <- ctx.Err(), then return
WorkerExit(w) ==
    /\ Alive /\ wpc[w] \in {"sendClosed", "sendCtxErr"}
    /\ Room(results)
    /\ results' = Append(results,
                     [err |-> IF wpc[w] = "sendClosed" THEN "nil" ELSE "canceled",
                      kind |-> "exit"])
    /\ wpc' = [wpc EXCEPT ![w] = "done"]
    /\ UNCHANGED <<mainpc, walkVars, ioPlan, numWorkers, jobs, jobsClosed,
                   cancelled, di, dpc, ci, firstErr, item, mu, m, fileCount,
                   deq, opened, exitsRead, mainVars>>

\* scanAndHashFile going on after a failed os.Open or io.Copy.
ScanNextNoReturn(i) ==
    IF Rejected(tree[walkFiles[i].path]) THEN "sendNil" ELSE "lock"

\* Where scanAndHashFile leaves the worker: at the lock when the file was
\* read, at its results <- nil after the early return or a failed os.Open or
\* io.Copy.
ScanNext(i) ==
    IF Rejected(tree[walkFiles[i].path]) \/ ioPlan[i] # "ok" THEN "sendNil" ELSE "lock"

\* The body of case file, ok := <-jobs.  An invalid descriptor (file == nil ||
\* file.file == nil): results <- error, continue.  Otherwise scanAndHashFile
\* up to the hash: the early return, fileCount++, os.Open, io.Copy.
WorkerProcess(w) ==
    /\ Alive /\ wpc[w] = "process"
    /\ IF walkFiles[item[w]].kind # "ok"
       THEN /\ Room(results)
            /\ results' = Append(results, [err |-> "invalid", kind |-> "item"])
            /\ wpc' = [wpc EXCEPT ![w] = "select"]
            /\ item' = [item EXCEPT ![w] = 0]
            /\ UNCHANGED <<fileCount, opened>>
       ELSE LET i == item[w]
                p == walkFiles[i].path
            IN  /\ fileCount' = IF Rejected(tree[p]) THEN fileCount ELSE fileCount + 1
                /\ opened' = IF Rejected(tree[p]) THEN opened ELSE opened \cup {p}
                /\ wpc' = [wpc EXCEPT ![w] = ScanNext(i)]
                /\ UNCHANGED <<results, item>>
    /\ UNCHANGED <<mainpc, walkVars, ioPlan, numWorkers, jobs, jobsClosed,
                   cancelled, di, dpc, ci, firstErr, mu, m, deq, exitsRead,
                   mainVars>>

\* A Lock() that does not wait for the holder.
LockIgnored == TRUE

\* duplicates.Lock() returns only when no worker holds the mutex.
LockFree == mu = 0

\* duplicates.Lock()
WorkerLock(w) ==
    /\ Alive /\ wpc[w] = "lock"
    /\ LockFree
    /\ mu' = w
    /\ wpc' = [wpc EXCEPT ![w] = "append"]
    /\ UNCHANGED <<mainpc, walkVars, ioPlan, numWorkers, jobs, jobsClosed,
                   results, cancelled, di, dpc, ci, firstErr, item, m,
                   fileCount, deq, opened, exitsRead, mainVars>>

\* An assignment that drops what the list held.
PutAlone(idx, h, p) ==
    IF h \in DOMAIN idx THEN [idx EXCEPT ![h] = <<p>>]
    ELSE idx @@ (h :> <<p>>)

\* An insertion at the head of the list.
PutFront(idx, h, p) ==
    IF h \in DOMAIN idx THEN [idx EXCEPT ![h] = <<p>> \o @]
    ELSE idx @@ (h :> <<p>>)

\* duplicates.m[hash] = append(duplicates.m[hash], path)
Put(idx, h, p) ==
    IF h \in DOMAIN idx THEN [idx EXCEPT ![h] = Append(@, p)]
    ELSE idx @@ (h :> <<p>>)

\* the append and duplicates.Unlock()
WorkerAppend(w) ==
    /\ Alive /\ wpc[w] = "append"
    /\ m' = Put(m, HashOf(walkFiles[item[w]].path), walkFiles[item[w]].path)
    /\ mu' = 0
    /\ wpc' = [wpc EXCEPT ![w] = "sendNil"]
    /\ UNCHANGED <<mainpc, walkVars, ioPlan, numWorkers, jobs, jobsClosed,
                   results, cancelled, di, dpc, ci, firstErr, item, fileCount,
                   deq, opened, exitsRead, mainVars>>

\* results <- nil after scanAndHashFile returned
WorkerSend(w) ==
    /\ Alive /\ wpc[w] = "sendNil"
    /\ Room(results)
    /\ results' = Append(results, [err |-> "nil", kind |-> "item"])
    /\ wpc' = [wpc EXCEPT ![w] = "select"]
    /\ item' = [item EXCEPT ![w] = 0]
    /\ UNCHANGED <<mainpc, walkVars, ioPlan, numWorkers, jobs, jobsClosed,
                   cancelled, di, dpc, ci, firstErr, mu, m, fileCount, deq,
                   opened, exitsRead, mainVars>>

\* ------------------------------------------------------------ collector
\* A collector whose firstErr follows the latest non-nil result.
KeepLast(prev, err) == IF err # "nil" THEN err ELSE prev

\* if err != nil { if firstErr == nil { firstErr = err; cancel() } }
KeepFirst(prev, err) == IF err # "nil" /\ prev = "nil" THEN err ELSE prev

\* one iteration of the loop of computeHashes: err := <-results; the first
\* non-nil err is kept and cancels the context
Collect ==
    /\ mainpc = "compute"
    /\ ci < Len(walkFiles)
    /\ results # << >>
    /\ results' = Received(results)
    /\ ci' = ci + 1
    /\ firstErr' = KeepFirst(firstErr, Head(results).err)
    /\ cancelled' = (cancelled \/ Head(results).err # "nil")
    /\ exitsRead' = IF Head(results).kind = "exit" THEN exitsRead + 1 ELSE exitsRead
    /\ UNCHANGED <<mainpc, walkVars, ioPlan, numWorkers, jobs, jobsClosed, di,
                   dpc, wpc, item, mu, m, fileCount, deq, opened, mainVars>>

\* return firstErr, with the deferred cancel()
Return ==
    /\ mainpc = "compute"
    /\ ci = Len(walkFiles)
    /\ cancelled' = TRUE
    /\ mainpc' = "returned"
    /\ UNCHANGED <<walkVars, ioPlan, numWorkers, jobs, jobsClosed, results, di,
                   dpc, ci, firstErr, wpc, item, mu, m, fileCount, deq, opened,
                   exitsRead, mainVars>>

\* ----------------------------------------------------------------- main
\* Groups of the index with more than one path.
DupGroups(idx) == {h \in DOMAIN idx : Len(idx[h]) > 1}

\* the first loop over duplicates.m: dupCount++ per group of more than one path
MainCount ==
    /\ mainpc = "returned"
    /\ dupCount' = dupCount + Cardinality(DupGroups(m))
    /\ mainpc' = "report"
    /\ UNCHANGED <<walkVars, poolVars, deleted, delFlag>>

\* What the second loop hands to deleteFile: every path of a group of more
\* than one path but its first.
AllButFirst(idx) == UNION {{idx[h][k] : k \in 2..Len(idx[h])} : h \in DupGroups(idx)}

\* the second loop over duplicates.m: with the delete flag every path of a
\* group but its first goes to deleteFile
MainReport ==
    /\ mainpc = "report"
    /\ \E del \in BOOLEAN :
          /\ delFlag' = IF del THEN "on" ELSE "off"
          /\ deleted' = IF del THEN AllButFirst(m) ELSE {}
    /\ mainpc' = "exit"
    /\ UNCHANGED <<walkVars, poolVars, dupCount>>

\* the last summary line and os.Exit(0)
MainExit ==
    /\ mainpc = "exit"
    /\ mainpc' = "exited"
    /\ UNCHANGED <<walkVars, poolVars, mainVars>>

\* ------------------------------------------------------- specifications
Dispatcher == DispatchSend \/ DispatchClose

Worker(w) ==
    \/ WorkerTake(w) \/ WorkerClosed(w) \/ WorkerDone(w) \/ WorkerExit(w)
    \/ WorkerProcess(w) \/ WorkerLock(w) \/ WorkerAppend(w) \/ WorkerSend(w)

Next ==
    \/ VisitFile
    \/ VisitFilePanic
    \/ StartCompute
    \/ DispatchSend
    \/ DispatchClose
    \/ \E w \in Workers : WorkerTake(w)
    \/ \E w \in Workers : WorkerClosed(w)
    \/ \E w \in Workers : WorkerDone(w)
    \/ \E w \in Workers : WorkerExit(w)
    \/ \E w \in Workers : WorkerProcess(w)
    \/ \E w \in Workers : WorkerLock(w)
    \/ \E w \in Workers : WorkerAppend(w)
    \/ \E w \in Workers : WorkerSend(w)
    \/ Collect
    \/ Return
    \/ MainCount
    \/ MainReport
    \/ MainExit

\* The program, from main.
Spec == Init /\ [][Next]_vars

\* computeHashes on its own, over any walkFiles: a descriptor is valid, a nil
\* pointer, or one whose FileInfo is nil.  The valid ones are files of two
\* contents that pass the filter; an invalid one has no file behind it.
\* visitCount, the capacity of both channels, is at least 1 (the root is
\* always visited) and at least len(walkFiles).
HarnessFiles == {[nilInfo |-> FALSE, isDir |-> FALSE, err |-> FALSE,
                  content |-> c, match |-> TRUE] : c \in {<<1, 1>>, <<1, 2>>}}
Harness == {[kind |-> "nilptr", entry |-> NilEntry, io |-> "fail"],
            [kind |-> "nilinfo", entry |-> NilEntry, io |-> "fail"]}
           \cup {[kind |-> "ok", entry |-> e, io |-> o] : e \in HarnessFiles, o \in IO}

InitCH ==
    /\ mainpc = "compute"
    /\ \E n \in 0..MaxHarness :
          /\ \E hs \in [1..n -> Harness] :
                /\ tree = [i \in 1..n |-> hs[i].entry]
                /\ walkFiles = [i \in 1..n |-> [kind |-> hs[i].kind, path |-> i]]
                /\ ioPlan = [i \in 1..n |-> hs[i].io]
          /\ deq = [i \in 1..n |-> 0]
          /\ visitCount \in {IF n = 0 THEN 1 ELSE n, n + 1}
    /\ numWorkers \in 1..MaxCPU
    /\ wpc = [w \in 1..numWorkers |-> "select"]
    /\ item = [w \in 1..numWorkers |-> 0]
    /\ jobs = << >>
    /\ jobsClosed = FALSE
    /\ results = << >>
    /\ cancelled = FALSE
    /\ di = 0
    /\ dpc = "run"
    /\ ci = 0
    /\ firstErr = "nil"
    /\ mu = 0
    /\ m = EmptyMap
    /\ fileCount = 0
    /\ dupCount = 0
    /\ deleted = {}
    /\ delFlag = "unread"
    /\ opened = {}
    /\ exitsRead = 0

NextCH ==
    \/ DispatchSend
    \/ DispatchClose
    \/ \E w \in Workers : WorkerTake(w)
    \/ \E w \in Workers : WorkerClosed(w)
    \/ \E w \in Workers : WorkerDone(w)
    \/ \E w \in Workers : WorkerExit(w)
    \/ \E w \in Workers : WorkerProcess(w)
    \/ \E w \in Workers : WorkerLock(w)
    \/ \E w \in Workers : WorkerAppend(w)
    \/ \E w \in Workers : WorkerSend(w)
    \/ Collect
    \/ Return

SpecCH == InitCH /\ [][NextCH]_vars

\* The Go scheduler runs every goroutine that can take a step.
Fairness ==
    /\ WF_vars(Dispatcher)
    /\ WF_vars(Collect \/ Return)
    /\ \A w \in 1..MaxCPU : WF_vars(w \in Workers /\ Worker(w))

FairSpecCH == SpecCH /\ Fairness

\* =========================================================== properties
Range(f) == {f[x] : x \in DOMAIN f}

\* The paths of the index, and the index as a set of (fingerprint, path).
IndexPaths == UNION {Range(m[h]) : h \in DOMAIN m}
Content(idx) == UNION {{<<h, idx[h][k]>> : k \in 1..Len(idx[h])} : h \in DOMAIN idx}

Descriptors == 1..Len(walkFiles)
Started == mainpc \notin {"walk", "panic"}
Returned == mainpc \in {"returned", "report", "exit", "exited"}
AllExited == Started /\ \A w \in Workers : wpc[w] = "done"

\* A worker holds a dequeued descriptor whose result it has not sent yet.
Busy(w) == wpc[w] \in {"process", "lock", "append", "sendNil"}

\* The index a run with one worker builds: the descriptors in walkFiles order,
\* each appended under its fingerprint when it is valid and was read.
RECURSIVE SingleThreadIndex(_)
SingleThreadIndex(n) ==
    IF n = 0 THEN EmptyMap
    ELSE IF walkFiles[n].kind = "ok" /\ ~Rejected(tree[walkFiles[n].path])
            /\ ioPlan[n] = "ok"
         THEN Put(SingleThreadIndex(n - 1), HashOf(walkFiles[n].path), walkFiles[n].path)
         ELSE SingleThreadIndex(n - 1)

\* With one worker the index at the return of computeHashes is the one
\* SingleThreadIndex computes.
SingleThreadAgrees ==
    (numWorkers = 1 /\ Returned) => m = SingleThreadIndex(Len(walkFiles))

\* C1: computeHashes returns only after every descriptor of walkFiles was
\* dequeued and its worker has finished with it and sent its result: once it
\* has returned, nothing is queued in jobs and no worker holds a descriptor.
C1_ReturnsAfterAllWork ==
    Returned =>
        /\ jobs = << >>
        /\ \A i \in Descriptors : deq[i] >= 1
        /\ \A w \in Workers : ~Busy(w)

\* C2: the index content (fingerprint -> set of paths) at the return of
\* computeHashes is the one a single worker builds from the same walkFiles and
\* the same open/read outcomes, whatever the number of workers and their
\* interleaving.
C2_SameIndexAsSingleThread ==
    mainpc = "returned" => Content(m) = Content(SingleThreadIndex(Len(walkFiles)))

\* C3: every descriptor is dequeued by at most one worker, and every path is
\* at most once in the whole index.
C3_OnceDequeuedOnceIndexed ==
    /\ \A i \in DOMAIN deq : deq[i] <= 1
    /\ \A i, j \in Workers : (i # j /\ item[i] # 0) => item[i] # item[j]
    /\ \A h \in DOMAIN m : \A k, l \in 1..Len(m[h]) : k # l => m[h][k] # m[h][l]
    /\ \A g, h \in DOMAIN m : g # h => Range(m[g]) \cap Range(m[h]) = {}

\* C3's case: two workers hold two different descriptors while a path is in
\* the index already.
C3_Witness ==
    /\ \E i, j \in Workers : i # j /\ item[i] # 0 /\ item[j] # 0
    /\ IndexPaths # {}

\* The descriptors whose os.Open or io.Copy has failed.
Failed == {i \in DOMAIN ioPlan : ioPlan[i] = "fail" /\ walkFiles[i].path \in opened}

Indexed(i) == <<HashOf(walkFiles[i].path), walkFiles[i].path>> \in Content(m)

\* C4: when opening or reading a dispatched file has failed, its path is not
\* in the index, the context is not cancelled by it (only the return of
\* computeHashes cancels) and no error is recorded, and once all workers have
\* exited every other dispatched file that can be read is in the index under
\* its own fingerprint.
C4_FailureIsIsolated ==
    \A f \in Failed :
        /\ walkFiles[f].path \notin IndexPaths
        /\ firstErr = "nil"
        /\ cancelled => Returned
        /\ AllExited =>
              \A i \in Descriptors : (i # f /\ ioPlan[i] = "ok") => Indexed(i)

\* C4's case: all workers have exited, one file failed and another one is in
\* the index.
C4_Witness ==
    /\ AllExited
    /\ \E f \in Failed : \E i \in Descriptors : i # f /\ Indexed(i)

\* C5: computeHashes always returns: the collector is never left waiting for
\* a result that nobody will send (the dispatcher and every worker have
\* returned, results is empty, and the loop has iterations left).
C5_CollectorNeverStuck ==
    ~ /\ mainpc = "compute"
      /\ ci < Len(walkFiles)
      /\ results = << >>
      /\ dpc = "done"
      /\ \A w \in Workers : wpc[w] = "done"

\* C5 as a liveness property, under fair scheduling.
C5_EventuallyReturns == <>Returned

\* C6: once the context is cancelled no worker dequeues from jobs, and what is
\* in the index stays in it.
C6_NoDequeueAfterCancel ==
    [][cancelled => (deq' = deq /\ Content(m) \subseteq Content(m'))]_vars

\* The walked entries that were not dispatched.
Skipped == {p \in 1..Len(tree) : \A i \in Descriptors : walkFiles[i].path # p}

\* C7: at the end of the run visitCount = fileCount + skipped + errored, and
\* fileCount is the number of files hashed and added to the index.
C7_CountersAddUp ==
    mainpc = "exited" =>
        /\ visitCount = fileCount + Cardinality(Skipped) + Cardinality(Failed)
        /\ fileCount = Cardinality(IndexPaths)

SameGroup(p, q) == \E h \in DOMAIN m : p \in Range(m[h]) /\ q \in Range(m[h])

\* C8: once all workers have exited, two hashed files are in the same group
\* of the index exactly when their contents are equal.
C8_SameGroupIffSameContent ==
    AllExited =>
        \A p, q \in IndexPaths : SameGroup(p, q) <=> tree[p].content = tree[q].content

\* C8's case: all workers have exited and two files share a group.
C8_Witness ==
    /\ AllExited
    /\ \E p, q \in IndexPaths : p # q /\ SameGroup(p, q)

\* C9: an entry the walk reports with an error never makes visitFile fail.
C9_WalkErrorNeverAborts ==
    \A p \in 1..Len(tree) : tree[p].err => mainpc # "panic"

\* A directory, a file below the minimum size, a file whose name fails the
\* pattern.
Ineligible(e) == ~e.nilInfo /\ (e.isDir \/ Size(e) < MinSize \/ ~e.match)

\* C10: an ineligible entry is counted as visited and is never in walkFiles,
\* never in jobs, never held or opened by a worker, never in the index.
C10_FilteredNeverDispatched ==
    /\ visitCount = Len(tree)
    /\ \A p \in 1..Len(tree) :
          Ineligible(tree[p]) =>
              /\ \A i \in Descriptors : walkFiles[i].path # p
              /\ \A k \in 1..Len(jobs) : walkFiles[jobs[k]].path # p
              /\ \A w \in Workers : item[w] # 0 => walkFiles[item[w]].path # p
              /\ p \notin opened
              /\ p \notin IndexPaths

\* C10's case: a file was filtered out for its size or its name, and the run
\* has hashed another one.
C10_Witness ==
    /\ Returned
    /\ IndexPaths # {}
    /\ \E p \in 1..Len(tree) : Ineligible(tree[p]) /\ ~tree[p].isDir

\* The paths stored in an index, counted with repetitions.
RECURSIVE Stored(_, _)
Stored(idx, hs) ==
    IF hs = {} THEN 0
    ELSE LET h == CHOOSE x \in hs : TRUE
         IN  Len(idx[h]) + Stored(idx, hs \ {h})

\* The descriptors whose file was opened and read.
Hashed == {i \in DOMAIN ioPlan : ioPlan[i] = "ok" /\ walkFiles[i].path \in opened}

InAppend == {w \in Workers : wpc[w] = "append"}

\* C11: at most one worker is between duplicates.Lock() and Unlock(), it is
\* the holder of the mutex, and once all workers have exited the index stores
\* as many paths as files were hashed.
C11_NoLostUpdate ==
    /\ Cardinality(InAppend) <= 1
    /\ \A w \in Workers : wpc[w] = "append" <=> mu = w
    /\ AllExited => Stored(m, DOMAIN m) = Cardinality(Hashed)

\* C11's case: a worker holds the mutex for its append while another one, with
\* a file of the same fingerprint, waits at Lock().
C11_Witness ==
    \E v, w \in Workers :
        /\ wpc[v] = "append" /\ wpc[w] = "lock"
        /\ HashOf(walkFiles[item[v]].path) = HashOf(walkFiles[item[w]].path)

\* C12: results carries item results only, one per dequeued descriptor, so
\* every result the collector consumes is the result of a dispatched file
\* (never a message a worker sends as it returns).
C12_ConsumedAreItemResults == exitsRead = 0

\* C13: with the delete flag, at the end of the run every group of more than
\* one path has lost every path but its first, which is kept, and no path of
\* a group of one is deleted.
C13_DeleteKeepsFirst ==
    (mainpc = "exited" /\ delFlag = "on") =>
        \A h \in DOMAIN m :
            /\ m[h][1] \notin deleted
            /\ \A k \in 2..Len(m[h]) : m[h][k] \in deleted

\* A regular file of at least the minimum size whose name matches.
Eligible(e) == ~e.nilInfo /\ ~e.isDir /\ Size(e) >= MinSize /\ e.match

\* C14: every eligible file the walk has visited has a descriptor in
\* walkFiles.
C14_EligibleIsDispatched ==
    \A p \in 1..Len(tree) :
        Eligible(tree[p]) => \E i \in Descriptors : walkFiles[i].path = p

\* The list of fingerprint h in index idx, empty when h has no list.
ListOf(idx, h) == IF h \in DOMAIN idx THEN idx[h] ELSE << >>

\* C15: every step leaves the index unchanged or appends exactly one path to
\* the end of exactly one fingerprint's list; nothing is removed, reordered or
\* changed in another list, before and after cancellation.
C15_IndexOnlyGrows ==
    [][\/ m' = m
       \/ /\ DOMAIN m \subseteq DOMAIN m'
          /\ \E h \in DOMAIN m' :
                /\ Len(m'[h]) = Len(ListOf(m, h)) + 1
                /\ SubSeq(m'[h], 1, Len(ListOf(m, h))) = ListOf(m, h)
                /\ \A g \in DOMAIN m' \ {h} : g \in DOMAIN m /\ m'[g] = m[g]]_vars

\* A worker has appended a second path to a list after cancellation of the
\* context (it is about to send the result of that file).
C15_Witness ==
    /\ cancelled
    /\ \E w \in Workers :
          /\ wpc[w] = "sendNil"
          /\ \E h \in DOMAIN m :
                Len(m[h]) > 1 /\ m[h][Len(m[h])] = walkFiles[item[w]].path

\* The collector consumes a result in this step.
Consumes == ci' = ci + 1 /\ results # << >>

\* C16: while results are collected the context is cancelled exactly when a
\* non-nil result has been consumed, it never goes back to running, and it is
\* cancelled only by the step that consumes the first non-nil result; firstErr,
\* the value computeHashes returns, changes only in that step, to that result,
\* and stays nil over every step that consumes a nil result or none.
C16_FirstErrorWins ==
    /\ [](mainpc = "compute" => (cancelled <=> firstErr # "nil"))
    /\ [][/\ cancelled => cancelled'
          /\ (mainpc' = "compute" /\ ~cancelled /\ cancelled') =>
                /\ Consumes /\ firstErr = "nil"
                /\ Head(results).err # "nil"
                /\ firstErr' = Head(results).err
          /\ firstErr # "nil" => firstErr' = firstErr
          /\ (Consumes /\ Head(results).err # "nil") => firstErr' # "nil"
          /\ firstErr' # firstErr => Consumes /\ firstErr' = Head(results).err]_vars

\* The collector holds a first error and is about to consume a later, other
\* error.
C16_Witness ==
    /\ mainpc = "compute" /\ ci < Len(walkFiles)
    /\ firstErr = "invalid"
    /\ results # << >> /\ Head(results).err = "canceled"

\* The counters and the sizes are ordered.
CountersOrdered == fileCount <= Len(walkFiles) /\ Len(walkFiles) <= visitCount

\* C17: fileCount <= len(walkFiles) <= visitCount; the jobs channel never holds
\* more than its capacity, and whenever the dispatcher has a descriptor left
\* to send the channel has room for it, so it never blocks on a send and
\* reaches its close(jobs), cancelled or not.
C17_DispatcherNeverBlocks ==
    /\ CountersOrdered
    /\ Started =>
          /\ Len(jobs) <= Len(walkFiles)
          /\ (dpc = "run" /\ di < Len(walkFiles)) => Room(jobs)
          /\ (dpc = "done") <=> jobsClosed

\* C17 as stated: the jobs channel is never full.
C17_JobsNeverFull == CountersOrdered /\ (Started => Len(jobs) < visitCount)

\* The dispatcher has sent every descriptor without a worker taking one, and
\* has closed the channel: the buffer holds len(walkFiles) > 1 items.
C17_Witness ==
    /\ Started /\ jobsClosed /\ dpc = "done"
    /\ Len(jobs) = Len(walkFiles) /\ Len(walkFiles) > 1
    /\ fileCount = 0

\* A list of paths in discovery order: a path is its position in the walk.
InOrder(s) == \A j, k \in 1..Len(s) : j < k => s[j] < s[k]

\* Some group of the index is not in discovery order.
Disordered == \E h \in DOMAIN m : ~InOrder(m[h])

\* The first-discovered path of some group has gone to deleteFile.
FirstDeleted ==
    \E h \in DOMAIN m : \E p \in Range(m[h]) :
        (\A q \in Range(m[h]) : p <= q) /\ p \in deleted

\* C18: with one worker the paths of every group are in discovery order and
\* the deleter keeps the first-discovered path of each group; a group out of
\* discovery order, or a first-discovered path that is deleted, occurs only
\* with more than one worker.
C18_OrderDiffersOnlyInParallel == (Disordered \/ FirstDeleted) => numWorkers > 1

\* With more than one worker a run has ended with the later-discovered path
\* first in its group and kept, and the first-discovered path deleted.
C18_Witness ==
    /\ mainpc = "exited" /\ delFlag = "on"
    /\ Disordered /\ FirstDeleted

====
